---------------------------- MODULE Spec2Model ----------------------------
(***************************************************************************)
(* Model of parity/db/rocksdb/lmdb.rs: the KeyValueDB adapter `Database`   *)
(* over an rkv (LMDB) environment shared behind Arc<RwLock<Rkv>>.          *)
(*                                                                         *)
(* A byte is a number 0..255, a byte string a sequence of bytes.  A column *)
(* Option<u32> is <<>> (None) or <<n>> (Some(n)).  The environment is a    *)
(* function from the names of the substores that exist to their contents,  *)
(* a set of <<key, stored bytes>> pairs.                                   *)
(*                                                                         *)
(* The calls into the rkv crate behave as that crate does:                 *)
(*   Manager::get_or_create canonicalizes the path and returns the Arc of  *)
(*                        the environment registered for it, creating and  *)
(*                        registering one when there is none;              *)
(*   Rkv::open_or_create  opens the named database, creating it if absent; *)
(*   Rkv::read            begins a read transaction: a snapshot;           *)
(*   Rkv::write           begins the one write transaction of the          *)
(*                        environment, blocking while another one lives;   *)
(*   Writer::put          stores Value::to_bytes() of the value under key, *)
(*                        replacing what the key held;                     *)
(*   Writer::delete       removes key, Err(NotFound) when key is absent;   *)
(*   Writer::commit       publishes the transaction; a Writer dropped      *)
(*                        without commit is aborted;                       *)
(*   Reader::get          Value::from_tagged_slice of the stored bytes;    *)
(*   Value::to_bytes      the tagged serialisation of a Value: the type    *)
(*                        tag, then for a blob its length as a            *)
(*                        little-endian u64, then its bytes.               *)
(***************************************************************************)
EXTENDS Integers, Sequences, FiniteSets, TLC

\* ------------------------------------------------------------- bounds
\* The largest column number whose substore name is compared with the others.
MaxCol == 12
\* The work of a run, all callers together: a write costs one unit for each
\* of its operations (one if it has none), every other call one unit.
MaxWork == 3
\* The longest transaction written through a Database opened on a path.
MaxOps == 1

\* ------------------------------------------------------------- inputs
Threads == {"t1", "t2"}

\* Option<u32>: None, Some(1), Some(10)
None == <<>>
Some(n) == <<n>>
SeqCols == {None, Some(1), Some(10)}
ConcCols == {Some(1)}
ApiCols == {None, Some(1)}

SeqKeys == {<<97>>}
ConcKeys == {<<97>>, <<98>>}
Prefixes == {<<98>>}

SeqVals == {<<5>>, <<6, 7>>}
ConcVals == {<<5>>}

\* Database values, the path strings they are opened on, and the directories
\* those strings name.
\* A path is the sequence of its components below the root.
Facades == {"db1", "db2"}
Paths == {<<"a">>, <<"a", ".">>, <<"b">>}

\* ------------------------------------------------------ pure functions
\* u32::to_string: the decimal digits, most significant first, in ASCII.
RECURSIVE U32ToString(_)
U32ToString(n) ==
    IF n < 10 THEN <<48 + n>> ELSE U32ToString(n \div 10) \o <<48 + (n % 10)>>

\* The argument open_store gives open_or_create: None for column None, the
\* decimal string of n for Some(n).  An Option<&str>: <<>> or <<name>>.
StoreNameFirstDigit(col) ==
    IF col = None THEN <<>> ELSE <<SubSeq(U32ToString(col[1]), 1, 1)>>
StoreName(col) ==
    IF col = None THEN <<>> ELSE <<U32ToString(col[1])>>

\* The tag rkv gives Type::Blob.
BlobTag == 9

\* The count low bytes of n, least significant first.
RECURSIVE LEBytes(_, _)
LEBytes(n, count) ==
    IF count = 0 THEN <<>> ELSE <<n % 256>> \o LEBytes(n \div 256, count - 1)

\* bincode's length prefix: a u64, little-endian.
LenLE(n) == LEBytes(n, 8)

\* Value::Blob(&value)
Blob(bytes) == [type |-> "Blob", data |-> bytes]

\* Value::to_bytes
ToBytes(value) == <<BlobTag>> \o LenLE(Len(value.data)) \o value.data

\* Value::from_tagged_slice
FromTaggedSlice(bytes) ==
    [type |-> IF Head(bytes) = BlobTag THEN "Blob" ELSE "Unknown",
     data |-> SubSeq(bytes, 10, Len(bytes))]

\* DBValue::from_slice(&value.to_bytes().unwrap()): what get and the iterator
\* hand the caller for a Value read from the store.
ReadValue(value) == ToBytes(value)

\* Byte-lexicographic order on keys (the engine's key order).
RECURSIVE LexLess(_, _)
LexLess(a, b) ==
    IF b = <<>> THEN FALSE
    ELSE IF a = <<>> THEN TRUE
    ELSE IF Head(a) # Head(b) THEN Head(a) < Head(b)
    ELSE LexLess(Tail(a), Tail(b))

\* Path::canonicalize: the directory a path names, without its "." components.
RECURSIVE Canonicalize(_)
Canonicalize(path) ==
    IF path = <<>> THEN <<>>
    ELSE IF Head(path) = "." THEN Canonicalize(Tail(path))
    ELSE <<Head(path)>> \o Canonicalize(Tail(path))

Dirs == {Canonicalize(path) : path \in Paths}

\* -------------------------------------------------- the engine's stores
\* Rkv::open_or_create on environment contents e.
OpenOrCreateSeeded(e, name) ==
    IF name \in DOMAIN e THEN e ELSE e @@ (name :> {<<<<>>, ToBytes(Blob(<<>>))>>})
OpenOrCreateFresh(e, name) ==
    [x \in DOMAIN e \cup {name} |-> IF x = name THEN {} ELSE e[x]]
OpenOrCreate(e, name) ==
    IF name \in DOMAIN e THEN e ELSE e @@ (name :> {})

\* The content of column c in environment e.
Content(e, c) == IF StoreName(c) \in DOMAIN e THEN e[StoreName(c)] ELSE {}

\* Writer::put: the pair of key replaces every pair the key had.
PutAlone(content, key, bytes) == {<<key, bytes>>}
Put(content, key, bytes) ==
    {p \in content : p[1] # key} \cup {<<key, bytes>>}

\* Writer::delete on a key that is present.
Del(content, key) == {p \in content : p[1] # key}

HasKey(content, key) == \E p \in content : p[1] = key

\* Reader::get: Option<Value>, <<>> for None and <<value>> for Some(value).
ReaderGet(content, key) ==
    IF HasKey(content, key)
    THEN <<FromTaggedSlice((CHOOSE p \in content : p[1] = key)[2])>>
    ELSE <<>>

\* Reader::iter_start followed by Iter::next to the end: the pairs of a
\* substore in ascending key order.
RECURSIVE IterItems(_)
IterItems(content) ==
    IF content = {} THEN <<>>
    ELSE LET first == CHOOSE p \in content :
                          \A q \in content : q = p \/ ~LexLess(q[1], p[1])
         IN <<first>> \o IterItems(content \ {first})

\* The effect of one operation on an environment, and of a sequence of them
\* from left to right.
ApplyOp(e, op) ==
    LET s == StoreName(op.col)
    IN [OpenOrCreate(e, s) EXCEPT ![s] =
           IF op.kind = "Insert"
           THEN Put(@, op.key, ToBytes(Blob(op.value)))
           ELSE Del(@, op.key)]

RECURSIVE ApplyAll(_, _)
ApplyAll(e, ops) ==
    IF ops = <<>> THEN e ELSE ApplyAll(ApplyOp(e, Head(ops)), Tail(ops))

\* --------------------------------------------------------------- state
VARIABLES
    mode,     \* "seq": one caller; "conc": every thread of Threads calls;
              \* "live": the same on one key; "api": one caller of every
              \* method; "open": Database::open
    env,      \* the committed environment: substore name -> content
    rlock,    \* rlock[t]: read guards of the RwLock<Rkv> thread t holds
    writers,  \* the threads that hold a write transaction (a Writer)
    wview,    \* wview[t]: the environment as t's write transaction sees it
    pc,       \* pc[t]: where thread t is in its call
    call,     \* call[t]: the call t is in or has last returned from
    col,      \* col[t], key[t]: the arguments of t's get or iter
    key,
    tr,       \* tr[t]: transaction.ops of t's write
    idx,      \* idx[t]: the operation of tr[t] the loop of write is at
    store,    \* store[t]: the Store open_store returned to t
    snap,     \* snap[t]: the environment as t's Reader sees it
    itpos,    \* itpos[t]: items t's iterator has yielded
    out,      \* out[t]: the items t's iterator yielded, in order
    ret,      \* ret[t]: what t's last call returned
    work,     \* the work submitted so far
    fault,    \* history: the engine failed in t's call (I/O, map full, ...)
    lastw,    \* history: the last committed operation on each (column, key)
    expect,   \* history: what the history held when t's Reader began
    base,     \* history: env when t's write was called
    mixed,    \* history: another thread committed between the operations of
              \* t's write, or changed what t's reader reads while t held it
    failedAt, \* history: where in t's call the engine failed
    manager,  \* the Manager singleton: canonical path -> environment handle
    envs,     \* envs[h]: the contents of the environment behind handle h
    dbs,      \* dbs[f]: Database f: the handle in its manager field (0 before
              \* open succeeded) and, as history, the path it was opened on
    fres,     \* fres[f]: the last call on Database f and what it returned
    plast     \* history: the last operation committed at each directory
              \* on each (column, key), and the Database it came through

\* The variables of a call on one Database, and those of Database::open.
callvars == <<env, rlock, writers, wview, pc, call, col, key, tr, idx,
              store, snap, itpos, out, ret, work, fault, lastw, expect, base,
              mixed, failedAt>>
regvars == <<manager, envs, dbs, fres, plast>>
vars == <<mode, callvars, regvars>>

Active == IF mode \in {"conc", "live"} THEN Threads ELSE {"t1"}
Cols == CASE mode = "seq" -> SeqCols [] mode = "api" -> ApiCols [] OTHER -> ConcCols
Keys == IF mode \in {"seq", "live"} THEN SeqKeys ELSE ConcKeys
Vals == IF mode = "seq" THEN SeqVals ELSE ConcVals

\* DBOp
Insert(c, k, v) == [kind |-> "Insert", col |-> c, key |-> k, value |-> v]
Delete(c, k) == [kind |-> "Delete", col |-> c, key |-> k, value |-> <<>>]
Ops ==
    {Insert(c, k, v) : c \in Cols, k \in Keys, v \in Vals}
        \cup {Delete(c, k) : c \in Cols, k \in Keys}
Transactions(n) == UNION {[1..m -> Ops] : m \in 0..n}

AllCols == SeqCols \cup ConcCols
AllKeys == SeqKeys \cup ConcKeys
NoEnv == <<>>
NoStore == <<<<>>>>
NotOpen == [manager |-> 0, path |-> <<>>]
NoCall == [call |-> "none", key |-> <<>>, result |-> <<>>, last |-> <<>>]

InitWith(m) ==
    /\ mode = m
    /\ env = <<>>
    /\ rlock = [t \in Threads |-> 0]
    /\ writers = {}
    /\ wview = [t \in Threads |-> NoEnv]
    /\ pc = [t \in Threads |-> "idle"]
    /\ call = [t \in Threads |-> "none"]
    /\ col = [t \in Threads |-> None]
    /\ key = [t \in Threads |-> <<>>]
    /\ tr = [t \in Threads |-> <<>>]
    /\ idx = [t \in Threads |-> 0]
    /\ store = [t \in Threads |-> NoStore]
    /\ snap = [t \in Threads |-> NoEnv]
    /\ itpos = [t \in Threads |-> 0]
    /\ out = [t \in Threads |-> <<>>]
    /\ ret = [t \in Threads |-> <<>>]
    /\ work = 0
    /\ fault = [t \in Threads |-> FALSE]
    /\ lastw = [ck \in AllCols \X AllKeys |-> <<"never">>]
    /\ expect = [t \in Threads |-> <<>>]
    /\ base = [t \in Threads |-> NoEnv]
    /\ mixed = [t \in Threads |-> FALSE]
    /\ failedAt = [t \in Threads |-> "nowhere"]
    /\ manager = <<>>
    /\ envs = <<>>
    /\ dbs = [f \in Facades |-> NotOpen]
    /\ fres = [f \in Facades |-> NoCall]
    /\ plast = [d \in Dirs |-> [ck \in AllCols \X AllKeys |-> <<"never">>]]

Init == InitWith("seq")
InitConc == InitWith("conc")

\* ------------------------------------------------------------- helpers
\* write and write_buffered run the same loop.
WriteKinds == {"write", "write_buffered"}

\* What the caller gets when the body of t's call ends with result:
\* write_buffered is self.write(tr).unwrap(), so () for Ok and a panic for Err.
OutcomeSame(t, result) == result
Outcome(t, result) ==
    IF call[t] = "write_buffered"
    THEN IF result = <<"Ok">> THEN <<"Unit">> ELSE <<"Panic">>
    ELSE result

\* The end of a call: every guard and handle the call held is dropped.
Return(t, result) ==
    /\ pc' = [pc EXCEPT ![t] =
                IF Outcome(t, result) = <<"Panic">> THEN "panicked" ELSE "idle"]
    /\ ret' = [ret EXCEPT ![t] = Outcome(t, result)]
    /\ rlock' = [rlock EXCEPT ![t] = 0]
    /\ writers' = writers \ {t}
    /\ wview' = [wview EXCEPT ![t] = NoEnv]
    /\ snap' = [snap EXCEPT ![t] = NoEnv]
    /\ store' = [store EXCEPT ![t] = NoStore]

\* The engine reports a failure to t's call, which ends with result.
Fail(t, result) ==
    /\ Return(t, result)
    /\ fault' = [fault EXCEPT ![t] = TRUE]
    /\ failedAt' = [failedAt EXCEPT ![t] = pc[t]]

\* Thread t, between calls, makes a call of the given kind and arguments; the
\* first thing each of write, get (in open_store) and iter (in open_store)
\* does is manager.read().  What the call before left behind is gone.
Begin(t, kind, c, k, ops, cost, first) ==
    /\ t \in Active
    /\ pc[t] = "idle"
    /\ work + cost <= MaxWork
    /\ work' = work + cost
    /\ call' = [call EXCEPT ![t] = kind]
    /\ col' = [col EXCEPT ![t] = c]
    /\ key' = [key EXCEPT ![t] = k]
    /\ tr' = [tr EXCEPT ![t] = ops]
    /\ idx' = [idx EXCEPT ![t] = IF kind \in WriteKinds THEN 1 ELSE 0]
    /\ base' = [base EXCEPT ![t] = IF kind \in WriteKinds THEN env ELSE NoEnv]
    /\ out' = [out EXCEPT ![t] = <<>>]
    /\ itpos' = [itpos EXCEPT ![t] = 0]
    /\ ret' = [ret EXCEPT ![t] = <<>>]
    /\ expect' = [expect EXCEPT ![t] = <<>>]
    /\ mixed' = [mixed EXCEPT ![t] = FALSE]
    /\ fault' = [fault EXCEPT ![t] = FALSE]
    /\ failedAt' = [failedAt EXCEPT ![t] = "nowhere"]
    /\ rlock' = [rlock EXCEPT ![t] = @ + 1]
    /\ pc' = [pc EXCEPT ![t] = first]
    /\ UNCHANGED <<regvars, mode, env, writers, wview, store, snap, lastw>>

\* ---------------------------------------------------------- open_store
\* The operation the loop of t's write is at.
CurrentOpReversed(t) == tr[t][Len(tr[t]) + 1 - idx[t]]
CurrentOp(t) == tr[t][idx[t]]

\* The column whose substore t's call is resolving.
OpenCol(t) == IF pc[t] = "w_open" THEN CurrentOp(t).col ELSE col[t]

\* Whether the engine can begin a write transaction now: the environment has
\* one at a time, and whoever asks for a second waits.
CanWriteAlways == TRUE
CanWrite == writers = {}

\* open_store after its manager.read() (which the step before took):
\* open_or_create, then the guard is dropped and the Store returned.  An Err
\* leaves write and get through `?` and panics iter's unwrap.  The engine
\* opens the database inside a write transaction of its own, so this waits
\* while a Writer lives.
OpenStore(t) ==
    /\ pc[t] \in {"w_open", "g_open", "i_open"}
    /\ CanWrite
    /\ \E fail \in BOOLEAN :
         IF fail
         THEN /\ Fail(t, IF pc[t] = "i_open" THEN <<"Panic">> ELSE <<"Err">>)
              /\ UNCHANGED env
         ELSE /\ env' = OpenOrCreate(env, StoreName(OpenCol(t)))
              /\ store' = [store EXCEPT ![t] = StoreName(OpenCol(t))]
              /\ rlock' = [rlock EXCEPT ![t] = @ - 1]
              /\ pc' = [pc EXCEPT ![t] =
                          CASE pc[t] = "w_open" -> "w_begin"
                            [] pc[t] = "g_open" -> "g_reader"
                            [] OTHER -> "i_reader"]
              /\ UNCHANGED <<writers, wview, snap, ret, fault, failedAt>>
    /\ UNCHANGED <<regvars, mode, call, col, key, tr, idx, itpos, out, work, lastw,
                   expect, base, mixed>>

\* --------------------------------------------------------------- write
Cost(ops) == IF Len(ops) = 0 THEN 1 ELSE Len(ops)

\* write is called: let env = self.manager.read().unwrap()
CallWrite(t, ops) ==
    Begin(t, "write", None, <<>>, ops, Cost(ops), "w_loop")

\* for op in transaction.ops: the next operation enters open_store, which
\* takes the read lock again.
WriteNextOp(t) ==
    /\ pc[t] = "w_loop"
    /\ idx[t] <= Len(tr[t])
    /\ rlock' = [rlock EXCEPT ![t] = @ + 1]
    /\ pc' = [pc EXCEPT ![t] = "w_open"]
    /\ UNCHANGED <<regvars, mode, env, writers, wview, call, col, key, tr, idx, store,
                   snap, itpos, out, ret, work, fault, failedAt, lastw, expect, base,
                   mixed>>

\* The loop is over: Ok(()).
WriteReturn(t) ==
    /\ pc[t] = "w_loop"
    /\ idx[t] > Len(tr[t])
    /\ Return(t, <<"Ok">>)
    /\ UNCHANGED <<regvars, mode, env, call, col, key, tr, idx, itpos, out, work,
                   fault, failedAt, lastw, expect, base, mixed>>

\* let mut writer = env.write().unwrap()
WriteBegin(t) ==
    /\ pc[t] = "w_begin"
    /\ CanWrite
    /\ writers' = writers \cup {t}
    /\ wview' = [wview EXCEPT ![t] = env]
    /\ pc' = [pc EXCEPT ![t] = "w_apply"]
    /\ UNCHANGED <<regvars, mode, env, rlock, call, col, key, tr, idx, store, snap,
                   itpos, out, ret, work, fault, failedAt, lastw, expect, base, mixed>>

\* writer.put(store, key, &Value::Blob(&value)).map_err(other_io_err)?
WritePut(t) ==
    /\ pc[t] = "w_apply"
    /\ CurrentOp(t).kind = "Insert"
    /\ \E fail \in BOOLEAN :
         IF fail
         THEN Fail(t, <<"Err">>)
         ELSE /\ wview' = [wview EXCEPT ![t][store[t]] =
                     Put(@, CurrentOp(t).key, ToBytes(Blob(CurrentOp(t).value)))]
              /\ pc' = [pc EXCEPT ![t] = "w_commit"]
              /\ UNCHANGED <<rlock, writers, snap, store, ret, fault, failedAt>>
    /\ UNCHANGED <<regvars, mode, env, call, col, key, tr, idx, itpos, out, work,
                   lastw, expect, base, mixed>>

\* writer.delete(store, key).map_err(other_io_err)?  The engine's delete of
\* a key the store does not hold is Err(NotFound).
WriteDelete(t) ==
    /\ pc[t] = "w_apply"
    /\ CurrentOp(t).kind = "Delete"
    /\ \E fail \in BOOLEAN :
         IF fail
         THEN Fail(t, <<"Err">>)
         ELSE IF ~HasKey(wview[t][store[t]], CurrentOp(t).key)
         THEN /\ Return(t, <<"Err">>)
              /\ UNCHANGED <<fault, failedAt>>
         ELSE /\ wview' = [wview EXCEPT ![t][store[t]] =
                     Del(@, CurrentOp(t).key)]
              /\ pc' = [pc EXCEPT ![t] = "w_commit"]
              /\ UNCHANGED <<rlock, writers, snap, store, ret, fault, failedAt>>
    /\ UNCHANGED <<regvars, mode, env, call, col, key, tr, idx, itpos, out, work,
                   lastw, expect, base, mixed>>

\* What a committed operation leaves in the history of its (column, key):
\* for an insert its value and whether the key held a value before.
Written(op, held) ==
    IF op.kind = "Insert" THEN <<"ins", op.value, held>> ELSE <<"del">>

\* Thread u is inside a write, after its first commit and before its last
\* operation began its write transaction.
BetweenOps(u) ==
    /\ pc[u] \in {"w_loop", "w_open", "w_begin"}
    /\ idx[u] > 1
    /\ idx[u] <= Len(tr[u])

\* The pairs the history lw says column c holds.
RecordedIn(lw, c) ==
    {<<k, lw[<<c, k>>][2]>> : k \in {x \in AllKeys : lw[<<c, x>>][1] = "ins"}}
Recorded(c) == RecordedIn(lastw, c)

\* The pairs the history said the column of t's iterator held at its creation.
Held(t) == expect[t][2]

\* Thread u holds a reader, and history lw differs from the history at the
\* reader's beginning in what u reads: its key, or its iterator's column.
ReaderOvertaken(u, lw) ==
    \/ pc[u] = "g_get" /\ lw[<<col[u], key[u]>>] # expect[u]
    \/ pc[u] = "iterating" /\ RecordedIn(lw, col[u]) # Held(u)

\* What commit makes the committed environment: the transaction's view.
PublishedNothing(t) == env
Published(t) == wview[t]

\* A Writer whose commit failed is dropped, which aborts its transaction:
\* the committed environment stays as it was.
AbortedPublished(t) == wview[t]
Aborted(t) == env

\* commit consumes the Writer: the write transaction is over.
StillWriting(t) == writers
Released(t) == writers \ {t}

\* writer.commit().map_err(other_io_err)?
WriteCommit(t) ==
    /\ pc[t] = "w_commit"
    /\ \E fail \in BOOLEAN :
         IF fail
         THEN /\ Fail(t, <<"Err">>)
              /\ env' = Aborted(t)
              /\ UNCHANGED <<idx, lastw, mixed>>
         ELSE /\ env' = Published(t)
              /\ writers' = Released(t)
              /\ wview' = [wview EXCEPT ![t] = NoEnv]
              /\ store' = [store EXCEPT ![t] = NoStore]
              /\ idx' = [idx EXCEPT ![t] = @ + 1]
              /\ pc' = [pc EXCEPT ![t] = "w_loop"]
              /\ lastw' = [lastw EXCEPT ![<<CurrentOp(t).col, CurrentOp(t).key>>] =
                              Written(CurrentOp(t), @[1] = "ins")]
              /\ mixed' = [u \in Threads |->
                              IF u # t /\ (BetweenOps(u) \/ ReaderOvertaken(u, lastw'))
                              THEN TRUE ELSE mixed[u]]
              /\ UNCHANGED <<rlock, snap, ret, fault, failedAt>>
    /\ UNCHANGED <<regvars, mode, call, col, key, tr, itpos, out, work, expect, base>>

\* ----------------------------------------------------------------- get
\* get is called and enters open_store.
CallGet(t, c, k) == Begin(t, "get", c, k, <<>>, 1, "g_open")

\* let env = self.manager.read().unwrap(); let reader = env.read().unwrap()
GetReader(t) ==
    /\ pc[t] = "g_reader"
    /\ rlock' = [rlock EXCEPT ![t] = @ + 1]
    /\ snap' = [snap EXCEPT ![t] = env]
    /\ expect' = [expect EXCEPT ![t] = lastw[<<col[t], key[t]>>]]
    /\ pc' = [pc EXCEPT ![t] = "g_get"]
    /\ UNCHANGED <<regvars, mode, env, writers, wview, call, col, key, tr, idx, store,
                   itpos, out, ret, work, fault, failedAt, lastw, base, mixed>>

\* The Option<DBValue> get makes of the reader's Option<Value>.
GetResult(found) ==
    IF found = <<>> THEN <<"None">> ELSE <<"Some", ReadValue(found[1])>>

\* The substore t's reader looks the key up in: its snapshot's.
GetSourceLive(t) == env[store[t]]
GetSource(t) == snap[t][store[t]]

\* reader.get(store, key).map_err(other_io_err)?.map(..); Ok(result)
GetLookup(t) ==
    /\ pc[t] = "g_get"
    /\ \E fail \in BOOLEAN :
         IF fail
         THEN Fail(t, <<"Err">>)
         ELSE /\ Return(t, GetResult(ReaderGet(GetSource(t), key[t])))
              /\ UNCHANGED <<fault, failedAt>>
    /\ UNCHANGED <<regvars, mode, env, call, col, key, tr, idx, itpos, out, work,
                   lastw, expect, base, mixed>>

\* ---------------------------------------------------------------- iter
\* iter is called and enters open_store.
CallIter(t, c) == Begin(t, "iter", c, <<>>, <<>>, 1, "i_open")

\* let env = self.manager.read().unwrap(); let reader = env.read().unwrap();
\* reader.iter_start(store).unwrap()
IterReader(t) ==
    /\ pc[t] = "i_reader"
    /\ \E fail \in BOOLEAN :
         IF fail
         THEN /\ Fail(t, <<"Panic">>)
              /\ UNCHANGED expect
         ELSE /\ rlock' = [rlock EXCEPT ![t] = @ + 1]
              /\ snap' = [snap EXCEPT ![t] = env]
              /\ expect' = [expect EXCEPT ![t] = <<"pairs", Recorded(col[t])>>]
              /\ pc' = [pc EXCEPT ![t] = "i_new"]
              /\ UNCHANGED <<writers, wview, store, ret, fault, failedAt>>
    /\ UNCHANGED <<regvars, mode, env, call, col, key, tr, idx, itpos, out, work,
                   lastw, base, mixed>>

\* iter returns the DatabaseIterator; its read guard goes out of scope.
IterReturn(t) ==
    /\ pc[t] = "i_new"
    /\ rlock' = [rlock EXCEPT ![t] = @ - 1]
    /\ pc' = [pc EXCEPT ![t] = "iterating"]
    /\ UNCHANGED <<regvars, mode, env, writers, wview, call, col, key, tr, idx, store,
                   snap, itpos, out, ret, work, fault, failedAt, lastw, expect, base,
                   mixed>>

\* The item DatabaseIterator::next makes of the engine's (key, stored bytes).
NextItem(p) == <<p[1], ReadValue(FromTaggedSlice(p[2]))>>

\* The substore t's iterator walks: its reader's snapshot's.
IterSourceLive(t) == env[store[t]]
IterSource(t) == snap[t][store[t]]

\* DatabaseIterator::next: the next item, or None at the end.
IterNext(t) ==
    /\ pc[t] = "iterating"
    /\ LET items == IterItems(IterSource(t))
       IN IF itpos[t] < Len(items)
          THEN /\ out' = [out EXCEPT ![t] = Append(@, NextItem(items[itpos[t] + 1]))]
               /\ itpos' = [itpos EXCEPT ![t] = @ + 1]
               /\ UNCHANGED <<pc, ret, rlock, writers, wview, snap, store>>
          ELSE /\ Return(t, <<"End">>)
               /\ UNCHANGED <<out, itpos>>
    /\ UNCHANGED <<regvars, mode, env, call, col, key, tr, idx, work, fault, failedAt, lastw,
                   expect, base, mixed>>

\* --------------------------------------------------------------- stubs
\* A call that takes no lock and touches no store: it returns at once.
Stub(t, kind, c, k, result) ==
    /\ t \in Active
    /\ pc[t] = "idle"
    /\ work + 1 <= MaxWork
    /\ work' = work + 1
    /\ call' = [call EXCEPT ![t] = kind]
    /\ col' = [col EXCEPT ![t] = c]
    /\ key' = [key EXCEPT ![t] = k]
    /\ tr' = [tr EXCEPT ![t] = <<>>]
    /\ idx' = [idx EXCEPT ![t] = 0]
    /\ base' = [base EXCEPT ![t] = NoEnv]
    /\ out' = [out EXCEPT ![t] = <<>>]
    /\ itpos' = [itpos EXCEPT ![t] = 0]
    /\ ret' = [ret EXCEPT ![t] = result]
    /\ expect' = [expect EXCEPT ![t] = <<>>]
    /\ mixed' = [mixed EXCEPT ![t] = FALSE]
    /\ fault' = [fault EXCEPT ![t] = FALSE]
    /\ failedAt' = [failedAt EXCEPT ![t] = "nowhere"]
    /\ UNCHANGED <<regvars, mode, env, rlock, writers, wview, pc, store, snap,
                   lastw>>

\* get_by_prefix: error!(..); None
GetByPrefixFirst(t, c, p) ==
    LET matching == {q \in Content(env, c) :
                        Len(q[1]) >= Len(p) /\ SubSeq(q[1], 1, Len(p)) = p}
    IN IF matching = {} THEN <<"None">>
       ELSE <<"Some", ReadValue(FromTaggedSlice(IterItems(matching)[1][2]))>>
GetByPrefixResult(t, c, p) == <<"None">>
GetByPrefix(t, c, p) == Stub(t, "get_by_prefix", c, p, GetByPrefixResult(t, c, p))

\* flush: Ok(())
FlushResultErr == <<"Err">>
FlushResult == <<"Ok">>
Flush(t) == Stub(t, "flush", None, <<>>, FlushResult)

\* restore: error!(..); Ok(())
Restore(t, new_db) == Stub(t, "restore", None, new_db, <<"Ok">>)

\* Drop for Database: let _ = self.flush()
DropDatabase(t) == Stub(t, "drop", None, <<>>, <<"Unit">>)

\* write_buffered: self.write(tr).unwrap()
CallWriteBuffered(t, ops) ==
    Begin(t, "write_buffered", None, <<>>, ops, Cost(ops), "w_loop")

\* iter_from_prefix: self.iter(col)
CallIterFromPrefix(t, c, p) == Begin(t, "iter_from_prefix", c, p, <<>>, 1, "i_open")

\* ------------------------------------------------------- specification
Next ==
    \E t \in Threads :
        \/ \E ops \in Transactions(MaxWork - work) : CallWrite(t, ops)
        \/ WriteNextOp(t)
        \/ WriteReturn(t)
        \/ OpenStore(t)
        \/ WriteBegin(t)
        \/ WritePut(t)
        \/ WriteDelete(t)
        \/ WriteCommit(t)
        \/ \E c \in Cols, k \in Keys : CallGet(t, c, k)
        \/ GetReader(t)
        \/ GetLookup(t)
        \/ \E c \in Cols : CallIter(t, c)
        \/ IterReader(t)
        \/ IterReturn(t)
        \/ IterNext(t)

\* One caller, every column.
Spec == Init /\ [][Next]_vars

\* Every thread calls, on one column.
SpecConc == InitConc /\ [][Next]_vars

\* A step inside a call thread t has made: the call goes on.
Proceed(t) ==
    \/ WriteNextOp(t)
    \/ WriteReturn(t)
    \/ OpenStore(t)
    \/ WriteBegin(t)
    \/ WritePut(t)
    \/ WriteDelete(t)
    \/ WriteCommit(t)
    \/ GetReader(t)
    \/ GetLookup(t)
    \/ IterReader(t)
    \/ IterReturn(t)

\* Every thread calls, and a thread that can go on in its call does: threads
\* are scheduled fairly and no holder of a lock or handle stalls.  Every step
\* inside a call changes pc.
InitLive == InitWith("live")
SpecLive == InitLive /\ [][Next]_vars /\ \A t \in Threads : WF_pc(Proceed(t))

\* Every method of the Database.
NextApi ==
    \E t \in Threads :
        \/ \E ops \in Transactions(MaxWork - work) : CallWrite(t, ops)
        \/ \E ops \in Transactions(MaxWork - work) : CallWriteBuffered(t, ops)
        \/ WriteNextOp(t)
        \/ WriteReturn(t)
        \/ OpenStore(t)
        \/ WriteBegin(t)
        \/ WritePut(t)
        \/ WriteDelete(t)
        \/ WriteCommit(t)
        \/ \E c \in Cols, k \in Keys : CallGet(t, c, k)
        \/ GetReader(t)
        \/ GetLookup(t)
        \/ \E c \in Cols, p \in Prefixes : GetByPrefix(t, c, p)
        \/ \E c \in Cols : CallIter(t, c)
        \/ \E c \in Cols, p \in Prefixes : CallIterFromPrefix(t, c, p)
        \/ IterReader(t)
        \/ IterReturn(t)
        \/ IterNext(t)
        \/ Flush(t)
        \/ \E new_db \in Paths : Restore(t, new_db)
        \/ DropDatabase(t)

InitApi == InitWith("api")

\* ---------------------------------------------------------------- open
\* Manager::get_or_create finds the environment of a canonical path when the
\* registry has one.
RegistryMiss(dir) == FALSE
RegistryHit(dir) == dir \in DOMAIN manager

\* Database::open: Manager::singleton().write().unwrap()
\*     .get_or_create(Path::new(path), Rkv::new).map_err(other_io_err)?
\* The path is canonicalized; a directory the registry knows gives a clone of
\* its Arc, another one a new environment (Rkv::new) that is registered.
Open(f, path) ==
    /\ dbs[f] = NotOpen
    /\ \E fail \in BOOLEAN :
         IF fail
         THEN /\ fres' = [fres EXCEPT ![f] = [NoCall EXCEPT !.call = "open",
                                                           !.result = <<"Err">>]]
              /\ UNCHANGED <<manager, envs, dbs>>
         ELSE LET dir == Canonicalize(path)
                  new == Len(envs) + 1
              IN /\ fres' = [fres EXCEPT ![f] = [NoCall EXCEPT !.call = "open",
                                                              !.result = <<"Ok">>]]
                 /\ IF RegistryHit(dir)
                    THEN /\ dbs' = [dbs EXCEPT ![f] =
                                       [manager |-> manager[dir], path |-> path]]
                         /\ UNCHANGED <<manager, envs>>
                    ELSE /\ envs' = Append(envs, <<>>)
                         /\ manager' = [d \in DOMAIN manager \cup {dir} |->
                                           IF d = dir THEN new ELSE manager[d]]
                         /\ dbs' = [dbs EXCEPT ![f] =
                                       [manager |-> new, path |-> path]]
    /\ UNCHANGED <<mode, callvars, plast>>

\* write, from its call to its return, with nothing running beside it: the
\* operations are committed one by one up to the first that fails, which is
\* the one numbered failAt (the engine fails) or a Delete of an absent key.
\* last is the history of the directory, by the Database the call is on.
RECURSIVE WriteAll(_, _, _, _, _)
WriteAll(e, last, ops, failAt, f) ==
    IF ops = <<>> THEN [env |-> e, last |-> last, result |-> <<"Ok">>]
    ELSE LET op == Head(ops)
         IN IF \/ failAt = 1
               \/ op.kind = "Delete" /\ ~HasKey(Content(e, op.col), op.key)
            THEN [env |-> e, last |-> last, result |-> <<"Err">>]
            ELSE WriteAll(ApplyOp(e, op),
                          [last EXCEPT ![<<op.col, op.key>>] =
                              IF op.kind = "Insert" THEN <<"ins", op.value, f>>
                              ELSE <<"del", <<>>, f>>],
                          Tail(ops), failAt - 1, f)

\* A write through Database f.
DbWrite(f, ops) ==
    /\ dbs[f] # NotOpen
    /\ \E failAt \in 0..Len(ops) :
         LET h == dbs[f].manager
             dir == Canonicalize(dbs[f].path)
             w == WriteAll(envs[h], plast[dir], ops, failAt, f)
         IN /\ envs' = [envs EXCEPT ![h] = w.env]
            /\ plast' = [plast EXCEPT ![dir] = w.last]
            /\ fres' = [fres EXCEPT ![f] = [NoCall EXCEPT !.call = "write",
                                                         !.result = w.result]]
    /\ UNCHANGED <<mode, callvars, manager, dbs>>

\* A get through Database f, from its call to its return.
DbGet(f, c, k) ==
    /\ dbs[f] # NotOpen
    /\ \E fail \in BOOLEAN :
         LET h == dbs[f].manager
             dir == Canonicalize(dbs[f].path)
             e == OpenOrCreate(envs[h], StoreName(c))
         IN IF fail
            THEN /\ fres' = [fres EXCEPT ![f] =
                               [NoCall EXCEPT !.call = "get", !.result = <<"Err">>]]
                 /\ UNCHANGED envs
            ELSE /\ envs' = [envs EXCEPT ![h] = e]
                 /\ fres' = [fres EXCEPT ![f] =
                               [call |-> "get", key |-> <<c, k>>,
                                result |-> GetResult(ReaderGet(Content(e, c), k)),
                                last |-> plast[dir][<<c, k>>]]]
    /\ UNCHANGED <<mode, callvars, manager, dbs, plast>>

NextOpen ==
    \E f \in Facades :
        \/ \E path \in Paths : Open(f, path)
        \/ \E ops \in Transactions(MaxOps) \ {<<>>} : DbWrite(f, ops)
        \/ \E c \in Cols, k \in Keys : DbGet(f, c, k)

InitOpen == InitWith("open")

\* Databases opened on paths, written and read one call at a time.
SpecOpen == InitOpen /\ [][NextOpen]_vars

\* One caller of every method, on two columns.
SpecApi == InitApi /\ [][NextApi]_vars

\* ============================================================== claims
SameContents(e1, e2) == \A c \in AllCols : Content(e1, c) = Content(e2, c)

\* Thread t's last call was of the given kind and has returned.
Returned(t, kind) == call[t] = kind /\ pc[t] = "idle" /\ ret[t] # <<>>

\* Thread t's get has returned what its reader found (the engine did not fail).
GotAnswer(t) == Returned(t, "get") /\ ~fault[t]

\* C1 (as claimed): a get whose reader began when the last committed
\* operation on (c, k) was Insert{c, k, v} returns exactly v.
C1_RoundTrip ==
    \A t \in Threads :
        (GotAnswer(t) /\ expect[t][1] = "ins") => ret[t] = <<"Some", expect[t][2]>>

\* C2 (as claimed): a get whose reader began when the last committed
\* operation on (c, k) was Delete{c, k} returns absence, and a write never
\* returns an error at a Delete unless the engine itself failed (the delete
\* of a key that is not present is no error).
C2_Delete ==
    \A t \in Threads :
        /\ (GotAnswer(t) /\ expect[t] = <<"del">>) => ret[t] = <<"None">>
        /\ (Returned(t, "write") /\ ret[t] = <<"Err">>
                /\ CurrentOp(t).kind = "Delete") => fault[t]

\* C3: when operation k of the one caller's write fails, write returns an
\* error with the loop stopped at k, and the contents of every column are
\* those of op1..op(k-1) applied in order to the contents at the call:
\* the operations before k are committed, k and those after it left nothing.
C3_PartialApplication ==
    \A t \in Threads :
        (Returned(t, "write") /\ ret[t] = <<"Err">>) =>
            /\ idx[t] <= Len(tr[t])
            /\ SameContents(env, ApplyAll(base[t], SubSeq(tr[t], 1, idx[t] - 1)))

\* C3's case: the second of three operations failed; the first insert is in
\* the store, the third insert's key is not.
C3_Witness ==
    \E t \in Threads :
        /\ Returned(t, "write") /\ ret[t] = <<"Err">>
        /\ Len(tr[t]) = 3 /\ idx[t] = 2
        /\ tr[t][1].kind = "Insert" /\ tr[t][3].kind = "Insert"
        /\ tr[t][3].col # tr[t][1].col
        /\ HasKey(Content(env, tr[t][1].col), tr[t][1].key)
        /\ ~HasKey(Content(env, tr[t][3].col), tr[t][3].key)

\* Thread t, in get or creating an iterator, holds the environment for reading.
Reading(t) == call[t] \in {"get", "iter"} /\ rlock[t] > 0

\* C4 (as claimed): nobody holds the environment for reading while a caller
\* holds it for applying a write operation, and at most one caller does that.
C4_Exclusion ==
    /\ Cardinality(writers) <= 1
    /\ \A t, u \in Threads : ~(Reading(t) /\ u \in writers)

\* C4 (amended): at most one caller holds the write handle; it is applying
\* one operation and holds the environment's lock in read mode, as every get
\* and iterator creation does, so readers and the writer do not exclude
\* each other.
C4_SharedEnvironment ==
    /\ Cardinality(writers) <= 1
    /\ \A t \in writers : pc[t] \in {"w_apply", "w_commit"} /\ rlock[t] = 1
    /\ \A t \in Threads :
           pc[t] \in {"g_get", "i_new"} => (rlock[t] = 1 /\ t \notin writers)

\* C4's case: a get or an iterator creation holds the environment for reading
\* while another caller holds the write handle.
C4_Witness ==
    \E t, u \in Threads :
        /\ t # u
        /\ pc[t] \in {"g_get", "i_new"} /\ rlock[t] > 0
        /\ u \in writers /\ rlock[u] > 0

ColRange == {None} \cup {Some(n) : n \in 0..MaxCol}

\* C5: distinct columns have distinct substore names, and a key is in a
\* column's substore (where get and iter of that column find it) exactly when
\* the last committed operation on that column and key was an insert: what is
\* written in one column never shows in another.
C5_ColumnIsolation ==
    /\ \A c1, c2 \in ColRange : c1 # c2 => StoreName(c1) # StoreName(c2)
    /\ \A c \in AllCols, k \in AllKeys :
           /\ (ReaderGet(Content(env, c), k) # <<>>) <=> (lastw[<<c, k>>][1] = "ins")
           /\ (\E p \in Content(env, c) : p[1] = k) <=> (lastw[<<c, k>>][1] = "ins")
    /\ \A t \in Threads :
           pc[t] = "iterating" =>
               {p[1] : p \in IterSource(t)} = {p[1] : p \in Held(t)}

\* C5's case: a get of a key returned absence while another column, whose
\* substore exists beside the one read, holds that key.
C5_Witness ==
    \E t \in Threads, c \in AllCols :
        /\ GotAnswer(t) /\ ret[t] = <<"None">>
        /\ c # col[t] /\ c # None /\ col[t] # None
        /\ StoreName(col[t]) \in DOMAIN env
        /\ HasKey(Content(env, c), key[t])

\* C6 (as claimed): no column holds two pairs of one key; a get whose reader
\* began when the last committed operation on (c, k) was an insert of v2 over
\* a held value returns exactly v2; an iterator yields no key twice.
C6_Overwrite ==
    /\ \A c \in AllCols : \A p, q \in Content(env, c) : p[1] = q[1] => p = q
    /\ \A t \in Threads :
           (GotAnswer(t) /\ expect[t][1] = "ins" /\ expect[t][3]) =>
               ret[t] = <<"Some", expect[t][2]>>
    /\ \A t \in Threads : \A i, j \in 1..Len(out[t]) :
           out[t][i][1] = out[t][j][1] => i = j

\* C7: at every point of the one caller's write the contents of every column
\* are those of the operations before the one the loop is at, applied from
\* left to right to the contents at the call; write returns Ok only past the
\* last operation, so then they are those of the whole sequence.
C7_InOrder ==
    \A t \in Threads :
        (call[t] = "write" /\ ret[t] # <<"Err">>) =>
            /\ SameContents(env, ApplyAll(base[t], SubSeq(tr[t], 1, idx[t] - 1)))
            /\ ret[t] = <<"Ok">> => idx[t] = Len(tr[t]) + 1

\* C7's case: a write of two inserts of different values on one column and
\* key returned Ok, and the key holds the later value.
C7_Witness ==
    \E t \in Threads :
        /\ Returned(t, "write") /\ ret[t] = <<"Ok">>
        /\ Len(tr[t]) >= 2
        /\ tr[t][1].kind = "Insert" /\ tr[t][2].kind = "Insert"
        /\ tr[t][1].col = tr[t][2].col /\ tr[t][1].key = tr[t][2].key
        /\ tr[t][1].value # tr[t][2].value
        /\ ReaderGet(Content(env, tr[t][2].col), tr[t][2].key)
               = <<Blob(tr[t][2].value)>>

\* C8: the write handle is held exactly while one operation is applied and
\* committed, never between two operations of a write, so another caller's
\* operation can commit between them: the batch is not atomic.
C8_HandlePerOperation ==
    \A t \in Threads :
        /\ (t \in writers) <=> (pc[t] \in {"w_apply", "w_commit"})
        /\ BetweenOps(t) => (t \notin writers /\ wview[t] = NoEnv)

\* C8's case: between the two inserts of t's write another caller's delete of
\* the first key committed; readers now see neither of t's keys.
C8_Witness ==
    \E t, u \in Threads :
        /\ t # u /\ mixed[t] /\ BetweenOps(t)
        /\ Len(tr[t]) = 2 /\ idx[t] = 2
        /\ tr[t][1].kind = "Insert" /\ tr[t][2].kind = "Insert"
        /\ tr[t][1].key # tr[t][2].key
        /\ Returned(u, "write") /\ ret[u] = <<"Ok">>
        /\ tr[u] = <<Delete(tr[t][1].col, tr[t][1].key)>>
        /\ ~HasKey(Content(env, tr[t][1].col), tr[t][1].key)
        /\ ~HasKey(Content(env, tr[t][2].col), tr[t][2].key)

\* What a get answers when the last committed operation on its column and
\* key was w.
Answer(w) ==
    IF w[1] = "ins" THEN <<"Some", ReadValue(Blob(w[2]))>> ELSE <<"None">>

\* C9: at most one caller holds the write handle and a second caller cannot
\* take it while it is held; a caller that has its reader is never blocked,
\* and its get answers from the contents at the time the reader began,
\* whatever was committed since.
C9_WriterExclusion ==
    /\ Cardinality(writers) <= 1
    /\ \A u \in Threads :
           (pc[u] = "w_begin" /\ writers # {}) => ~ENABLED WriteBegin(u)
    /\ \A t \in Threads :
           /\ pc[t] = "g_get" => ENABLED GetLookup(t)
           /\ pc[t] = "iterating" => ENABLED IterNext(t)
           /\ GotAnswer(t) => ret[t] = Answer(expect[t])

\* C9's case: a get answered from its reader's snapshot although another
\* caller had committed an operation on its column and key since the reader
\* began; the answer is not what the key holds now.
C9_Witness ==
    \E t, u \in Threads :
        /\ t # u /\ GotAnswer(t) /\ mixed[t]
        /\ ret[t] # Answer(lastw[<<col[t], key[t]>>])
        /\ call[u] = "write" /\ idx[u] > 1

\* The items an iterator over the recorded pairs yields, in key order.
ExpectedItems(pairs) ==
    LET items == IterItems({<<p[1], ToBytes(Blob(p[2]))>> : p \in pairs})
    IN  [i \in 1..Len(items) |-> NextItem(items[i])]

\* C10: an iterator yields, in key order, the pairs its column held when it
\* was created, each once and none other, whatever is committed while it is
\* advanced; it ends after the last of them.
C10_IteratorSnapshot ==
    \A t \in Threads :
        (call[t] = "iter" /\ (pc[t] = "iterating" \/ ret[t] = <<"End">>)) =>
            /\ itpos[t] <= Cardinality(Held(t))
            /\ out[t] = SubSeq(ExpectedItems(Held(t)), 1, itpos[t])
            /\ ret[t] = <<"End">> => out[t] = ExpectedItems(Held(t))

\* C10's case: an iterator was exhausted after yielding a pair of a key that
\* another caller's commit, made while the iterator was advanced, deleted.
C10_Witness ==
    \E t \in Threads :
        /\ Returned(t, "iter") /\ ret[t] = <<"End">>
        /\ out[t] # <<>> /\ mixed[t]
        /\ \E i \in 1..Len(out[t]) :
               ~HasKey(Content(env, col[t]), out[t][i][1])

\* Thread t's iterator, made by iter, is being advanced or is exhausted.
Iterated(t) == call[t] = "iter" /\ (pc[t] = "iterating" \/ ret[t] = <<"End">>)

\* C11 (as claimed): an iterator yields its pairs in strictly ascending
\* byte-lexicographic key order; every pair it yields is a (key, value) pair
\* the column held, and once it has ended it has yielded every such pair
\* exactly once.
C11_IterationOrder ==
    \A t \in Threads :
        Iterated(t) =>
            /\ \A i, j \in 1..Len(out[t]) :
                   i < j => LexLess(out[t][i][1], out[t][j][1])
            /\ \A i \in 1..Len(out[t]) : out[t][i] \in Held(t)
            /\ ret[t] = <<"End">> =>
                   /\ Len(out[t]) = Cardinality(Held(t))
                   /\ {out[t][i] : i \in 1..Len(out[t])} = Held(t)

\* C12: Databases opened on paths that name one directory hold one and the
\* same environment handle; a get through any of them answers with the last
\* operation committed at that directory on its column and key, through
\* whichever Database it was written.
C12_SharedEnvironment ==
    /\ \A f, g \in Facades :
           (/\ dbs[f] # NotOpen /\ dbs[g] # NotOpen
            /\ Canonicalize(dbs[f].path) = Canonicalize(dbs[g].path))
               => dbs[f].manager = dbs[g].manager
    /\ \A f \in Facades :
           (fres[f].call = "get" /\ fres[f].result # <<"Err">>)
               => fres[f].result = Answer(fres[f].last)
    /\ \A f \in Facades : \A c \in AllCols, k \in AllKeys :
           dbs[f] # NotOpen =>
               GetResult(ReaderGet(Content(envs[dbs[f].manager], c), k))
                   = Answer(plast[Canonicalize(dbs[f].path)][<<c, k>>])

\* C12's case: a get through one Database returned the value that was
\* inserted through another Database, opened on another path of the same
\* directory.
C12_Witness ==
    \E f, g \in Facades :
        /\ f # g /\ dbs[f] # NotOpen /\ dbs[g] # NotOpen
        /\ dbs[f].path # dbs[g].path
        /\ fres[f].call = "get" /\ fres[f].result[1] = "Some"
        /\ fres[f].last[1] = "ins" /\ fres[f].last[3] = g
        /\ fres[g].call = "write" /\ fres[g].result = <<"Ok">>

\* C13: write_buffered never hands its caller an error.  It returns () only
\* past the last operation, with the contents write leaves: every operation
\* applied in order; when an operation fails it panics, and the operations
\* before the failing one stay applied.
C13_WriteBuffered ==
    \A t \in Threads :
        call[t] = "write_buffered" =>
            /\ ret[t] \in {<<>>, <<"Unit">>, <<"Panic">>}
            /\ ret[t] = <<"Unit">> =>
                   /\ pc[t] = "idle" /\ idx[t] = Len(tr[t]) + 1
                   /\ SameContents(env, ApplyAll(base[t], tr[t]))
            /\ ret[t] = <<"Panic">> =>
                   /\ pc[t] = "panicked" /\ idx[t] <= Len(tr[t])
                   /\ SameContents(env,
                          ApplyAll(base[t], SubSeq(tr[t], 1, idx[t] - 1)))

\* C13's case: write_buffered panicked at its second operation, and the key
\* its first operation inserted is stored.
C13_Witness ==
    \E t \in Threads :
        /\ call[t] = "write_buffered" /\ pc[t] = "panicked"
        /\ Len(tr[t]) >= 2 /\ idx[t] = 2
        /\ tr[t][1].kind = "Insert"
        /\ HasKey(Content(env, tr[t][1].col), tr[t][1].key)
        /\ ~HasKey(Content(base[t], tr[t][1].col), tr[t][1].key)

HasPrefix(k, p) == Len(k) >= Len(p) /\ SubSeq(k, 1, Len(p)) = p

\* What iter(c) yields to its end on the contents as they are.
IterSequence(c) ==
    LET items == IterItems(Content(env, c))
    IN  [i \in 1..Len(items) |-> NextItem(items[i])]

NoOpCalls == {"flush", "restore", "drop"}

\* C15: flush and restore always return Ok, and no call of flush, of restore
\* or of the destructor (which calls flush and drops its result) changes the
\* environment.
C15_NoOpStubs ==
    /\ [](\A t \in Threads :
              (call[t] \in {"flush", "restore"} /\ pc[t] = "idle")
                  => ret[t] = <<"Ok">>)
    /\ [][\A t \in Threads :
              (work' = work + 1 /\ call'[t] \in NoOpCalls)
                  => (env' = env /\ lastw' = lastw /\ pc'[t] = "idle")]_vars

\* C15's case: restore returned Ok on a database that holds a key.
C15_Witness ==
    \E t \in Threads :
        /\ Returned(t, "restore") /\ ret[t] = <<"Ok">>
        /\ \E c \in AllCols : Content(env, c) # {}

\* Thread t is in open_store.
Resolving(t) == pc[t] \in {"w_open", "g_open", "i_open"}

\* C16: the Store a call holds is the substore named after its column and
\* exists, whichever call resolved it and however often the column was
\* resolved before; open_store ends a call only when the engine fails; it
\* adds an empty substore when the column has none and otherwise changes
\* nothing, and no substore that exists loses or changes its contents.
C16_ResolveIdempotent ==
    /\ [](\A t \in Threads :
              store[t] # NoStore =>
                  /\ store[t] \in DOMAIN env
                  /\ store[t] = StoreName(IF call[t] \in WriteKinds
                                          THEN CurrentOp(t).col ELSE col[t]))
    /\ [][\A t \in Threads :
              (Resolving(t) /\ pc'[t] # pc[t]) =>
                  LET name == StoreName(OpenCol(t))
                  IN /\ pc'[t] \in {"idle", "panicked"} => fault'[t]
                     /\ pc'[t] \notin {"idle", "panicked"} => store'[t] = name
                     /\ name \in DOMAIN env => env' = env
                     /\ \A x \in DOMAIN env : x \in DOMAIN env' /\ env'[x] = env[x]
                     /\ \A x \in DOMAIN env' \ DOMAIN env : x = name /\ env'[x] = {}
         ]_vars

\* C16's case: a write resolved a column that had no substore for its first
\* insert and again for its second, and the column holds both keys.
C16_Witness ==
    \E t \in Threads :
        /\ Returned(t, "write") /\ ret[t] = <<"Ok">> /\ Len(tr[t]) = 2
        /\ tr[t][1].kind = "Insert" /\ tr[t][2].kind = "Insert"
        /\ tr[t][1].col = tr[t][2].col /\ tr[t][1].key # tr[t][2].key
        /\ StoreName(tr[t][1].col) \notin DOMAIN base[t]
        /\ HasKey(Content(env, tr[t][1].col), tr[t][1].key)
        /\ HasKey(Content(env, tr[t][2].col), tr[t][2].key)

\* Thread t is inside a call of get, iter or write.
InCall(t) == pc[t] \notin {"idle", "panicked", "iterating"}

\* C17: every call a thread is in ends: it returns or fails.
C17_Progress == \A t \in Threads : InCall(t) ~> ~InCall(t)

\* C17's case: a write holds the environment's read lock twice, once from
\* its own beginning and once from open_store, and waits in open_store while
\* another caller holds the write handle.
C17_Witness ==
    \E t, u \in Threads :
        /\ t # u /\ pc[t] = "w_open" /\ rlock[t] = 2
        /\ u \in writers /\ rlock[u] >= 1
        /\ ~ENABLED OpenStore(t)

\* C18: when write returns an error from operation k, whether the engine
\* failed in open_store, in put or delete, or in commit, the caller holds no
\* write handle any more and the contents are those of the operations before
\* k applied to the contents at the call; the key of operation k holds what
\* it held then.
C18_FailedOpNoEffect ==
    \A t \in Threads :
        (Returned(t, "write") /\ ret[t] = <<"Err">>) =>
            LET op == CurrentOp(t)
                before == ApplyAll(base[t], SubSeq(tr[t], 1, idx[t] - 1))
            IN /\ t \notin writers /\ wview[t] = NoEnv
               /\ failedAt[t] \in {"nowhere", "w_open", "w_apply", "w_commit"}
               /\ SameContents(env, before)
               /\ ReaderGet(Content(env, op.col), op.key)
                      = ReaderGet(Content(before, op.col), op.key)

\* C18's case: the commit of the second operation of a write failed after
\* its put; the key it would have inserted is not stored, the first
\* operation's is.
C18_Witness ==
    \E t \in Threads :
        /\ Returned(t, "write") /\ ret[t] = <<"Err">>
        /\ failedAt[t] = "w_commit" /\ idx[t] = 2
        /\ tr[t][1].kind = "Insert" /\ tr[t][2].kind = "Insert"
        /\ HasKey(Content(env, tr[t][1].col), tr[t][1].key)
        /\ ~HasKey(Content(env, tr[t][2].col), tr[t][2].key)

\* C19: the commit of an operation on (c, k) leaves every other key of
\* column c with the value it had and every other column with the contents it
\* had; key k itself then holds the inserted value, or nothing after a delete.
C19_WriteFrame ==
    [][\A t \in Threads :
           (pc[t] = "w_commit" /\ pc'[t] = "w_loop") =>
               LET op == CurrentOp(t)
               IN /\ \A c \in AllCols \ {op.col} : Content(env', c) = Content(env, c)
                  /\ \A k \in AllKeys \ {op.key} :
                         ReaderGet(Content(env', op.col), k)
                             = ReaderGet(Content(env, op.col), k)
                  /\ ReaderGet(Content(env', op.col), op.key)
                         = IF op.kind = "Insert" THEN <<Blob(op.value)>> ELSE <<>>
      ]_vars

\* C19's case: a write of one insert returned Ok; its key was not stored
\* before and is now, beside another key of its column and a key of another
\* column that were stored before.
C19_Witness ==
    \E t \in Threads :
        /\ Returned(t, "write") /\ ret[t] = <<"Ok">> /\ Len(tr[t]) = 1
        /\ tr[t][1].kind = "Insert"
        /\ ~HasKey(Content(base[t], tr[t][1].col), tr[t][1].key)
        /\ HasKey(Content(env, tr[t][1].col), tr[t][1].key)
        /\ \E k \in AllKeys \ {tr[t][1].key} :
               /\ HasKey(Content(base[t], tr[t][1].col), k)
               /\ HasKey(Content(env, tr[t][1].col), k)
        /\ \E c \in AllCols \ {tr[t][1].col} :
               Content(base[t], c) # {} /\ Content(env, c) = Content(base[t], c)

ReadCalls == {"get", "get_by_prefix", "iter", "iter_from_prefix"}

\* C20: no step of get, get_by_prefix, iter or iter_from_prefix changes the
\* key-value contents of any column, also when it creates the substore of
\* its column; a get that the engine did not fail and whose column holds
\* nothing under its key returns absence, not an error, and an iterator over
\* a column that holds nothing yields nothing.
C20_ReadsPreserve ==
    /\ [][\A t \in Threads :
              call'[t] \in ReadCalls =>
                  (SameContents(env', env) /\ lastw' = lastw)]_vars
    /\ [](\A t \in Threads :
              /\ (Returned(t, "get") /\ ~fault[t]
                      /\ ~HasKey(Content(env, col[t]), key[t]))
                     => ret[t] = <<"None">>
              /\ (call[t] \in {"iter", "iter_from_prefix"}
                      /\ Content(env, col[t]) = {})
                     => out[t] = <<>>)

\* C20's case: the first call on a database was a get; it created the empty
\* substore of its column and returned absence.
C20_Witness ==
    \E t \in Threads :
        /\ work = 1 /\ Returned(t, "get") /\ ret[t] = <<"None">> /\ ~fault[t]
        /\ StoreName(col[t]) \in DOMAIN env
        /\ env[StoreName(col[t])] = {}

=============================================================================
